---- MODULE Spec2Model ----
(***************************************************************************)
(* Model of the BCRA statistics client (src/bcra_api_client.py) and of the *)
(* dashboard's data collection (src/generate_dashboard.py: fetch_datos).   *)
(*                                                                         *)
(* JSON values and DataFrame cells are tagged records [t |-> tag, v |-> x] *)
(* so that values of different Python types can live in one collection.    *)
(***************************************************************************)
EXTENDS Integers, Sequences, FiniteSets, TLC

\* Longest record list of an envelope given to get_datos_variable.
MaxRecords == 3
\* Longest identifier list given to get_multiple_variables.
MaxIds == 2
\* How many times the date may change (midnight) during one run.
MaxTicks == 1

-----------------------------------------------------------------------------
(* JSON values, as response.json() produces them *)

Num(n) == [t |-> "num", v |-> n]
Str(s) == [t |-> "str", v |-> s]
Null == [t |-> "null", v |-> 0]
List(s) == [t |-> "list", v |-> s]
Dict(f) == [t |-> "dict", v |-> f]

(* DataFrame cells that are not JSON values: float NaN for a key a record    *)
(* lacks, a parsed timestamp (as a day number), and NaT.                     *)
NaN == [t |-> "nan", v |-> 0]
NaT == [t |-> "nat", v |-> 0]
Date(d) == [t |-> "date", v |-> d]

\* The `fecha` strings of the model: two ISO dates and one unparsable text.
FechasValidas == {"2024-01-01", "2024-01-02"}
FechaInvalida == "sin fecha"
Fechas == FechasValidas \cup {FechaInvalida}

\* The `valor` numbers of the model.
Valores == {3, 5}

\* Timestamp of an ISO date string (pd.to_datetime on one parsable string),
\* as the day of the month of January 2024.
DiaDe(s) == CASE s = "2024-01-01" -> 1
              [] s = "2024-01-02" -> 2

\* Timestamp.strftime("%Y-%m-%d"); NaT formats to NaN.
strftime(c) == CASE c.t = "nat" -> NaN
                 [] c.t = "date" /\ c.v = 1 -> Str("2024-01-01")
                 [] c.t = "date" /\ c.v = 2 -> Str("2024-01-02")

\* Records of the upstream API: {fecha, valor}, a record without `fecha`,
\* and a record that carries an additional scalar field named `detalle`.
Registros ==
    {Dict([fecha |-> Str(f), valor |-> Num(x)]) : f \in Fechas, x \in Valores}
    \cup {Dict([valor |-> Num(3)])}
    \cup {Dict([fecha |-> Str("2024-01-01"), valor |-> Num(3), detalle |-> Str("x")])}

SeqsUpTo(S, n) == UNION {[1..m -> S] : m \in 0..n}

ListasDeRegistros == SeqsUpTo(Registros, MaxRecords)

\* The three envelope shapes of a record list R.
EnvPlano(R) == [results |-> List(R)]
EnvDictDetalle(R) == [results |-> Dict([detalle |-> List(R)])]
EnvListaDetalle(R) == [results |-> List(<<Dict([idVariable |-> Num(1), detalle |-> List(R)])>>)]

\* Envelopes of none of the three shapes.
EnvSinResults == [status |-> Num(404)]
EnvRaros ==
    { [results |-> Num(5)],
      [results |-> Str("error")],
      [results |-> Null],
      [results |-> List(<<Num(5)>>)],
      [results |-> Dict([mensaje |-> Str("error")])] }

Envelopes ==
    {EnvPlano(R) : R \in ListasDeRegistros}
    \cup {EnvDictDetalle(R) : R \in ListasDeRegistros}
    \cup {EnvListaDetalle(R) : R \in ListasDeRegistros}
    \cup {EnvSinResults} \cup EnvRaros

-----------------------------------------------------------------------------
(* pandas.DataFrame: columns, index labels and rows (column -> cell) *)

DFVacio == [columns |-> {}, index |-> <<>>, rows |-> <<>>]

\* df.empty: any axis of length 0.
empty(df) == Len(df.index) = 0 \/ df.columns = {}

\* Python's `key in x`; "TypeError" when x is not a container.
Contiene(key, x) ==
    CASE x.t = "dict" -> IF key \in DOMAIN x.v THEN "si" ELSE "no"
      [] x.t = "list" -> IF \E i \in 1..Len(x.v) : x.v[i] = Str(key) THEN "si" ELSE "no"
      [] x.t \in {"num", "null"} -> "TypeError"

\* pd.DataFrame(x): [exc |-> "" or the exception raised, df |-> the frame].
DataFrame(x) ==
    CASE x.t = "null" -> [exc |-> "", df |-> DFVacio]
      [] x.t \in {"num", "str"} -> [exc |-> "ValueError", df |-> DFVacio]
      [] x.t = "dict" ->
            \* a mapping of scalars needs an index; the empty mapping is an empty frame
            IF DOMAIN x.v = {} THEN [exc |-> "", df |-> DFVacio]
            ELSE [exc |-> "ValueError", df |-> DFVacio]
      [] x.t = "list" /\ Len(x.v) > 0 /\ \A i \in 1..Len(x.v) : x.v[i].t \in {"num", "str", "null"} ->
            \* a list of scalars is one column, labelled 0
            [exc |-> "",
             df |-> [columns |-> {"0"},
                     index |-> [i \in 1..Len(x.v) |-> i - 1],
                     rows |-> [i \in 1..Len(x.v) |-> [c \in {"0"} |-> x.v[i]]]]]
      [] x.t = "list" /\ \A i \in 1..Len(x.v) : x.v[i].t = "dict" ->
            LET n == Len(x.v)
                cols == UNION {DOMAIN x.v[i].v : i \in 1..n}
            IN [exc |-> "",
                df |-> [columns |-> cols,
                        index |-> [i \in 1..n |-> i - 1],
                        rows |-> [i \in 1..n |->
                                   [c \in cols |-> IF c \in DOMAIN x.v[i].v
                                                   THEN x.v[i].v[c] ELSE NaN]]]]

-----------------------------------------------------------------------------
(* get_datos_variable, lines 115-128 *)

\* Mutant of Normalizar: the list-of-one-with-detalle shape is not probed.
Normalizar_sin_lista(data) ==
    IF "results" \notin DOMAIN data
    THEN [exc |-> "", rama |-> "sin_results", arg |-> Null]
    ELSE IF data.results.t = "dict" /\ "detalle" \in DOMAIN data.results.v
         THEN [exc |-> "", rama |-> "dict_detalle", arg |-> data.results.v.detalle]
         ELSE [exc |-> "", rama |-> "plano", arg |-> data.results]

\* The envelope resolution of lines 115-123: which branch is taken (rama) and
\* the value handed to pd.DataFrame (arg); exc is the exception of the probe
\* `'detalle' in results[0]` when results[0] is not a container.
Normalizar(data) ==
    IF "results" \notin DOMAIN data
    THEN [exc |-> "", rama |-> "sin_results", arg |-> Null]
    ELSE LET results == data.results IN
         IF results.t = "dict" /\ Contiene("detalle", results) = "si"
         THEN [exc |-> "", rama |-> "dict_detalle", arg |-> results.v.detalle]
         ELSE IF results.t = "list" /\ Len(results.v) > 0
              THEN CASE Contiene("detalle", results.v[1]) = "TypeError" ->
                          [exc |-> "TypeError", rama |-> "ninguna", arg |-> Null]
                     [] Contiene("detalle", results.v[1]) = "si" ->
                          [exc |-> "", rama |-> "lista_detalle", arg |-> results.v[1].v.detalle]
                     [] Contiene("detalle", results.v[1]) = "no" ->
                          [exc |-> "", rama |-> "plano", arg |-> results]
              ELSE [exc |-> "", rama |-> "plano", arg |-> results]

\* pd.to_datetime on one cell of the `fecha` column (errors='raise').
ParseCelda(c) ==
    CASE c.t = "nan" -> NaT
      [] c.t = "str" /\ c.v \in FechasValidas -> Date(DiaDe(c.v))

Parseable(c) == c.t = "nan" \/ (c.t = "str" /\ c.v \in FechasValidas)

\* Mutant of to_datetime: errors='coerce', an unparsable cell becomes NaT.
to_datetime_coerce(df) ==
    [exc |-> "",
     df |-> [df EXCEPT !.rows = [i \in 1..Len(df.rows) |->
                 [df.rows[i] EXCEPT !.fecha = IF Parseable(df.rows[i].fecha)
                                              THEN ParseCelda(df.rows[i].fecha)
                                              ELSE NaT]]]]

\* df['fecha'] = pd.to_datetime(df['fecha']): the whole column is converted,
\* or the call raises on the first cell it cannot parse.
to_datetime(df) ==
    IF \A i \in 1..Len(df.rows) : Parseable(df.rows[i].fecha)
    THEN [exc |-> "",
          df |-> [df EXCEPT !.rows = [i \in 1..Len(df.rows) |->
                      [df.rows[i] EXCEPT !.fecha = ParseCelda(df.rows[i].fecha)]]]]
    ELSE [exc |-> "ValueError", df |-> df]

Perms(n) == {p \in [1..n -> 1..n] : \A i, j \in 1..n : p[i] = p[j] => i = j}

\* p is an ordering sort_values('fecha') may produce: dated rows ascending,
\* then the NaT rows (na_position='last') in their original order.
EsOrden(df, p) ==
    \A i, j \in 1..Len(df.rows) : i < j =>
        LET a == df.rows[p[i]].fecha
            b == df.rows[p[j]].fecha
        IN /\ a.t = "nat" => b.t = "nat" /\ p[i] < p[j]
           /\ (a.t = "date" /\ b.t = "date") => a.v <= b.v

Reordenar(df, p) ==
    [df EXCEPT !.index = [i \in 1..Len(df.rows) |-> df.index[p[i]]],
               !.rows = [i \in 1..Len(df.rows) |-> df.rows[p[i]]]]

\* Mutant of sort_values: ascending=False.
sort_values_desc(df) ==
    LET n == Len(df.rows) IN
    {Reordenar(df, [i \in 1..n |-> p[n + 1 - i]]) :
        p \in {q \in Perms(n) : EsOrden(df, q)}}

\* Mutant of sort_values: followed by drop_duplicates('fecha').
sort_values_dedup(df) ==
    LET n == Len(df.rows)
        Unicas(s) == {i \in 1..n : \A j \in 1..(i - 1) : s.rows[j].fecha # s.rows[i].fecha}
        Enesimo(S, m) == CHOOSE x \in S : Cardinality({y \in S : y < x}) = m - 1
        Tomar(s, S) == [s EXCEPT !.index = [i \in 1..Cardinality(S) |-> s.index[Enesimo(S, i)]],
                                 !.rows = [i \in 1..Cardinality(S) |-> s.rows[Enesimo(S, i)]]]
    IN {Tomar(Reordenar(df, p), Unicas(Reordenar(df, p))) :
           p \in {q \in Perms(n) : EsOrden(df, q)}}

\* df.sort_values('fecha'): kind defaults to 'quicksort' (numpy's introsort),
\* which pandas documents as not stable: rows with equal dates may come out
\* in any relative order. (numpy's insertion sort of short arrays keeps ties
\* in place only below 17 rows; the 30 and 90 day windows hold more.) The set
\* of frames the call may return.
sort_values(df) ==
    {Reordenar(df, p) : p \in {q \in Perms(Len(df.rows)) : EsOrden(df, q)}}

Salida(e, n, d, ps) ==
    [exc |-> e, rama |-> n.rama, registros |-> n.arg, df |-> d, pasos |-> ps]

\* Mutant of Construir: the guard of line 124 is missing, so a frame with no
\* `fecha` column raises KeyError.
Construir_sin_guarda(n, df) ==
    IF "fecha" \notin df.columns
    THEN {Salida("KeyError", n, DFVacio, {"to_datetime"})}
    ELSE LET c == to_datetime(df) IN
         IF c.exc # ""
         THEN {Salida(c.exc, n, DFVacio, {"to_datetime"})}
         ELSE {Salida("", n, x, {"to_datetime", "sort_values"}) : x \in sort_values(c.df)}

\* Lines 124-127 on the frame built from the resolved records.
Construir(n, df) ==
    IF ~empty(df) /\ "fecha" \in df.columns
    THEN LET c == to_datetime(df) IN
         IF c.exc # ""
         THEN {Salida(c.exc, n, DFVacio, {"to_datetime"})}
         ELSE {Salida("", n, s, {"to_datetime", "sort_values"}) : s \in sort_values(c.df)}
    ELSE {Salida("", n, df, {})}

\* get_datos_variable after the transport call returned `data`: the set of
\* outcomes (exc = "" for a returned frame df, else the exception raised).
\* rama/registros/pasos record the branch taken, the value handed to
\* pd.DataFrame and the conversion steps executed.
get_datos_variable(data) ==
    LET n == Normalizar(data) IN
    IF n.exc # "" THEN {Salida(n.exc, n, DFVacio, {})}
    ELSE IF n.rama = "sin_results" THEN {Salida("", n, DFVacio, {})}
    ELSE LET f == DataFrame(n.arg) IN
         IF f.exc # "" THEN {Salida(f.exc, n, DFVacio, {})}
         ELSE Construir(n, f.df)

-----------------------------------------------------------------------------
(* Transport: get_variables_monetarias, lines 63-76 *)

\* Identifiers a caller may pass to get_multiple_variables.
IdsPedidos == {0, 1, 4}

\* VARIABLES of generate_dashboard.py, lines 13-19, in insertion order.
IdsDashboard == <<1, 4, 5, 12, 15>>

TablaVariables(id) ==
    CASE id = 1 -> [nombre |-> "Reservas Internacionales", unidad |-> "USD millones", archivo |-> "reservas"]
      [] id = 4 -> [nombre |-> "Tipo de Cambio (B 9791)", unidad |-> "ARS/USD", archivo |-> "tipo_cambio_oficial"]
      [] id = 5 -> [nombre |-> "TC Referencia (A 3500)", unidad |-> "ARS/USD", archivo |-> "tipo_cambio_referencia"]
      [] id = 12 -> [nombre |-> "Tasa Plazo Fijo", unidad |-> "% TNA", archivo |-> "tasa_plazo_fijo"]
      [] id = 15 -> [nombre |-> "Base Monetaria", unidad |-> "millones ARS", archivo |-> "base_monetaria"]

\* dias_atras: the default of get_multiple_variables, and the dashboard's.
DiasAtrasDefecto == 30
DIAS_ATRAS == 90

\* The GET request of get_variables_monetarias: `if id_variable:` picks the
\* per-variable URL only for a truthy identifier. Dates are day numbers.
Peticion(id_variable, desde, hasta) ==
    [url |-> IF id_variable # 0 THEN <<"Monetarias", id_variable>> ELSE <<"Monetarias">>,
     params |-> [desde |-> desde, hasta |-> hasta]]

\* What the call returns: the parsed body, or the exception of
\* session.get / raise_for_status / response.json().
Cuerpo(e) == [exc |-> "", data |-> e]
ErrorHTTP == [exc |-> "HTTPError", data |-> EnvSinResults]

\* Bodies the upstream may answer with in the batch runs.
CuerposLote ==
    { EnvPlano(<<>>),
      EnvListaDetalle(<<Dict([fecha |-> Str("2024-01-02"), valor |-> Num(5)]),
                        Dict([fecha |-> Str("2024-01-01"), valor |-> Num(3)])>>),
      EnvDictDetalle(<<Dict([fecha |-> Str("2024-01-01"), valor |-> Num(5)])>>),
      EnvPlano(<<Dict([fecha |-> Str("2024-01-01"), valor |-> Num(3)]),
                 Dict([fecha |-> Str(FechaInvalida), valor |-> Num(5)])>>),
      EnvPlano(<<Dict([valor |-> Num(3)])>>),
      [results |-> Num(5)] }

\* Bodies the upstream may answer with in the dashboard runs.
CuerposDashboard ==
    { EnvPlano(<<>>),
      EnvListaDetalle(<<Dict([fecha |-> Str("2024-01-02"), valor |-> Num(5)]),
                        Dict([fecha |-> Str("2024-01-01"), valor |-> Num(3)]),
                        Dict([fecha |-> Str("2024-01-02"), valor |-> Num(3)])>>),
      EnvPlano(<<Dict([valor |-> Num(3)])>>) }

-----------------------------------------------------------------------------
VARIABLES
    pc,             \* position of the running function
    data,           \* SpecDF: the envelope given to get_datos_variable
    salida,         \* SpecDF: its outcome
    modo,           \* which caller runs: "df", "lote" or "dashboard"
    ids_variables,  \* the identifiers to fetch, in order
    k,              \* loop position in ids_variables
    reloj,          \* the current day, datetime.now()
    llamadas,       \* the GET requests issued so far
    respuestas,     \* what each request returned, in order
    resultados,     \* get_multiple_variables: the result map
    datos,          \* fetch_datos: the report input map
    csv             \* fetch_datos: the CSV files written

vars == <<pc, data, salida, modo, ids_variables, k, reloj, llamadas, respuestas,
          resultados, datos, csv>>

SalidaNula == Salida("", [rama |-> "ninguna", arg |-> Null], DFVacio, {})

MapaVacio == [x \in {} |-> DFVacio]

InitComun ==
    /\ salida = SalidaNula
    /\ k = 1
    /\ reloj = 0
    /\ llamadas = <<>>
    /\ respuestas = <<>>
    /\ resultados = MapaVacio
    /\ datos = MapaVacio
    /\ csv = {}

InitDF ==
    /\ pc = "df_entrada"
    /\ modo = "df"
    /\ data \in Envelopes
    /\ ids_variables = <<>>
    /\ InitComun

Aplicar ==
    /\ pc = "df_entrada"
    /\ salida' \in get_datos_variable(data)
    /\ pc' = "df_hecho"
    /\ UNCHANGED <<data, modo, ids_variables, k, reloj, llamadas, respuestas,
                   resultados, datos, csv>>

NextDF == Aplicar

SpecDF == InitDF /\ [][NextDF]_vars

-----------------------------------------------------------------------------
(* get_multiple_variables (lines 142-152) and fetch_datos (lines 26-53) *)

\* A reading of datetime.now(): the day at t, or the next one if midnight passes.
Ahora(t) == {t} \cup (IF t < MaxTicks THEN {t + 1} ELSE {})

dias_atras == IF modo = "dashboard" THEN DIAS_ATRAS ELSE DiasAtrasDefecto

\* get_datos_variable up to the transport call (lines 106-113): the window is
\* computed from two readings of the clock, the request is sent and answered.
Llamar ==
    /\ pc = "llamar"
    /\ k <= Len(ids_variables)
    /\ \E t1 \in Ahora(reloj) : \E t2 \in Ahora(t1) :
          /\ reloj' = t2
          /\ llamadas' = Append(llamadas,
                                Peticion(ids_variables[k], t2 - dias_atras, t1))
    /\ \E r \in {ErrorHTTP} \cup
                {Cuerpo(e) : e \in IF modo = "dashboard" THEN CuerposDashboard ELSE CuerposLote} :
          respuestas' = Append(respuestas, r)
    /\ pc' = "registrar"
    /\ UNCHANGED <<data, salida, modo, ids_variables, k, resultados, datos, csv>>

\* The outcomes of get_datos_variable once the transport call has returned r.
DatosDe(r) ==
    IF r.exc # ""
    THEN {Salida(r.exc, [rama |-> "ninguna", arg |-> Null], DFVacio, {})}
    ELSE get_datos_variable(r.data)

Poner(m, id, x) == (id :> x) @@ m

\* Mutant of manejar_excepcion: the handler only reports, it stores nothing.
manejar_sin_entrada(m, id) == m

\* Lines 148-150: the handler of get_multiple_variables.
manejar_excepcion(m, id) == Poner(m, id, DFVacio)

\* `except Exception` (lines 148 and 50): HTTPError, ValueError, TypeError
\* and KeyError all derive from Exception.
atrapa(exc) == exc \in {"HTTPError", "ValueError", "TypeError", "KeyError"}

\* Lines 145-150: one iteration of get_multiple_variables. An exception the
\* handler did not catch would leave the function ("excepcion").
Registrar ==
    /\ pc = "registrar"
    /\ modo = "lote"
    /\ \E o \in DatosDe(respuestas[k]) :
          IF o.exc = ""
          THEN /\ resultados' = Poner(resultados, ids_variables[k], o.df)
               /\ pc' = "llamar"
          ELSE IF atrapa(o.exc)
          THEN /\ resultados' = manejar_excepcion(resultados, ids_variables[k])
               /\ pc' = "llamar"
          ELSE /\ resultados' = resultados
               /\ pc' = "excepcion"
    /\ k' = k + 1
    /\ UNCHANGED <<data, salida, modo, ids_variables, reloj, llamadas, respuestas,
                   datos, csv>>

\* Line 152 (and line 53): the loop is over, the map is returned.
Retornar ==
    /\ pc = "llamar"
    /\ k > Len(ids_variables)
    /\ pc' = "fin"
    /\ UNCHANGED <<data, salida, modo, ids_variables, k, reloj, llamadas, respuestas,
                   resultados, datos, csv>>

None == Null

\* Mutant of ultimo_de: the first value instead of the last.
ultimo_primero(valores) == IF Len(valores) > 0 THEN valores[1] ELSE None

\* Line 40.
ultimo_de(valores) == IF Len(valores) > 0 THEN valores[Len(valores)] ELSE None

\* Lines 38-47: the entry built from a non-empty frame with both columns.
Entrada(id, df) ==
    LET fechas == [i \in 1..Len(df.rows) |-> strftime(df.rows[i].fecha)]
        valores == [i \in 1..Len(df.rows) |-> df.rows[i].valor]
    IN [nombre |-> TablaVariables(id).nombre,
        unidad |-> TablaVariables(id).unidad,
        fechas |-> fechas,
        valores |-> valores,
        ultimo |-> ultimo_de(valores)]

\* Lines 31-51: one iteration of fetch_datos. The CSV is written before the
\* columns are read, so a frame lacking `fecha` or `valor` (KeyError, caught)
\* leaves a file and no entry. os.makedirs and to_csv are taken to succeed.
RegistrarDashboard ==
    /\ pc = "registrar"
    /\ modo = "dashboard"
    /\ \E o \in DatosDe(respuestas[k]) :
          LET id == ids_variables[k] IN
          IF o.exc # ""
          THEN /\ UNCHANGED <<datos, csv>>
               /\ pc' = IF atrapa(o.exc) THEN "llamar" ELSE "excepcion"
          ELSE IF empty(o.df)
          THEN /\ UNCHANGED <<datos, csv>>
               /\ pc' = "llamar"
          ELSE /\ csv' = csv \cup {TablaVariables(id).archivo}
               /\ datos' = IF "fecha" \in o.df.columns /\ "valor" \in o.df.columns
                           THEN Poner(datos, id, Entrada(id, o.df))
                           ELSE datos
               /\ pc' = IF atrapa("KeyError") THEN "llamar" ELSE "excepcion"
    /\ k' = k + 1
    /\ UNCHANGED <<data, salida, modo, ids_variables, reloj, llamadas, respuestas,
                   resultados>>

Init ==
    /\ pc = "llamar"
    /\ modo = "lote"
    /\ data = EnvSinResults
    /\ ids_variables \in SeqsUpTo(IdsPedidos, MaxIds)
    /\ InitComun

Next == Llamar \/ Registrar \/ Retornar

Spec == Init /\ [][Next]_vars

InitDashboard ==
    /\ pc = "llamar"
    /\ modo = "dashboard"
    /\ data = EnvSinResults
    /\ ids_variables = IdsDashboard
    /\ InitComun

NextDashboard == Llamar \/ RegistrarDashboard \/ Retornar

SpecDashboard == InitDashboard /\ [][NextDashboard]_vars

-----------------------------------------------------------------------------
(* Properties of get_datos_variable, checked under SpecDF *)

Hecho == pc = "df_hecho"

\* The resolved value is a list of records that all carry a parsable `fecha`.
FechasParseables(x) ==
    /\ x.t = "list"
    /\ \A i \in 1..Len(x.v) :
          /\ x.v[i].t = "dict"
          /\ "fecha" \in DOMAIN x.v[i].v
          /\ x.v[i].v.fecha.t = "str"
          /\ x.v[i].v.fecha.v \in FechasValidas

\* The row a record becomes: every field kept, `fecha` as its timestamp.
FilaDe(r, cols) ==
    [c \in cols |-> IF c \notin DOMAIN r.v THEN NaN
                    ELSE IF c = "fecha" THEN Date(DiaDe(r.v.fecha.v))
                    ELSE r.v[c]]

NoDecreciente(df) ==
    \A i, j \in 1..Len(df.rows) :
        i < j => df.rows[i].fecha.v <= df.rows[j].fecha.v

Estable(df) ==
    \A i, j \in 1..Len(df.rows) :
        (i < j /\ df.rows[i].fecha = df.rows[j].fecha) => df.index[i] < df.index[j]

\* The resolution order as section 4.2 words it.
ResolucionEscrita(e) ==
    IF "results" \notin DOMAIN e THEN [rama |-> "sin_results", arg |-> Null]
    ELSE IF e.results.t = "dict" /\ "detalle" \in DOMAIN e.results.v
         THEN [rama |-> "dict_detalle", arg |-> e.results.v.detalle]
    ELSE IF /\ e.results.t = "list"
            /\ Len(e.results.v) > 0
            /\ e.results.v[1].t = "dict"
            /\ "detalle" \in DOMAIN e.results.v[1].v
         THEN [rama |-> "lista_detalle", arg |-> e.results.v[1].v.detalle]
    ELSE [rama |-> "plano", arg |-> e.results]

\* C2 (as claimed): for every envelope the resolution follows the written
\* precedence: results absent -> empty; mapping with detalle -> nested list;
\* non-empty list whose first element contains detalle -> its nested list;
\* otherwise results itself.
C2_Precedencia ==
    Hecho =>
        /\ salida.rama = ResolucionEscrita(data).rama
        /\ salida.registros = ResolucionEscrita(data).arg
        /\ salida.rama = "sin_results" => (salida.exc = "" /\ salida.df = DFVacio)

\* C5 (as claimed): an envelope of none of the accepted shapes degrades to an
\* empty record list instead of raising.
C5_DegradaAVacio ==
    (Hecho /\ data \in EnvRaros) => (salida.exc = "" /\ empty(salida.df))

SinRama(o) == [exc |-> o.exc, registros |-> o.registros, df |-> o.df]

Formas(R) == {EnvPlano(R), EnvDictDetalle(R), EnvListaDetalle(R)}

MismaResolucion(R) ==
    /\ salida.registros = List(R)
    /\ \A e \in Formas(R) :
          SinRama(salida) \in {SinRama(o) : o \in get_datos_variable(e)}

\* The lists found where an envelope may carry its records: at results, at
\* results.detalle and at results[0].detalle. Every R with e \in Formas(R) is
\* one of them.
ListasEn(e) ==
    IF "results" \notin DOMAIN e THEN {}
    ELSE LET r == e.results IN
         (IF r.t = "list" THEN {r.v} ELSE {})
         \cup (IF r.t = "dict" /\ "detalle" \in DOMAIN r.v /\ r.v.detalle.t = "list"
               THEN {r.v.detalle.v} ELSE {})
         \cup (IF /\ r.t = "list"
                  /\ Len(r.v) > 0
                  /\ r.v[1].t = "dict"
                  /\ "detalle" \in DOMAIN r.v[1].v
                  /\ r.v[1].v.detalle.t = "list"
               THEN {r.v[1].v.detalle.v} ELSE {})

\* data is one of the three envelope shapes of the record list R.
FormaDe(R) == R \in ListasDeRegistros /\ data \in Formas(R)

\* C3 (as claimed): for every record list R the three envelope shapes resolve
\* to the same list R and build the same series.
C3_TodasLasListas ==
    Hecho => \A R \in ListasEn(data) : FormaDe(R) => MismaResolucion(R)

PrimeroSinDetalle(R) == Len(R) > 0 => "detalle" \notin DOMAIN R[1].v

\* C3 (amended): for every record list R whose first record has no field
\* named detalle, the three envelope shapes resolve to the same list R and
\* build the same series.
C3_FormasEquivalentes ==
    Hecho => \A R \in ListasEn(data) :
                (FormaDe(R) /\ PrimeroSinDetalle(R)) => MismaResolucion(R)

C3_Witness ==
    /\ Hecho
    /\ data = EnvListaDetalle(<<Dict([fecha |-> Str("2024-01-02"), valor |-> Num(5)]),
                                Dict([fecha |-> Str("2024-01-01"), valor |-> Num(3)])>>)
    /\ salida.registros = EnvPlano(<<Dict([fecha |-> Str("2024-01-02"), valor |-> Num(5)]),
                                     Dict([fecha |-> Str("2024-01-01"), valor |-> Num(3)])>>).results
    /\ salida.exc = ""

ConFechas == Hecho /\ FechasParseables(salida.registros) /\ Len(salida.registros.v) > 0

ListaVacia(e) == e \in Formas(<<>>) \cup {EnvSinResults}

\* C6: an envelope whose record list is empty (or that has no results) yields
\* an empty frame, with no exception and no date parsing or sorting.
C6_VacioSinError ==
    (Hecho /\ ListaVacia(data)) =>
        (salida.exc = "" /\ empty(salida.df) /\ salida.pasos = {})

C6_Witness ==
    Hecho /\ data = EnvPlano(<<>>) /\ salida.exc = "" /\ salida.df = DFVacio

\* C10: for a record list with parsable dates the series is a permutation of
\* the input records: same length, each input position exactly once, each
\* row the record at that position; equal dates are all kept.
C10_Permutacion ==
    (Hecho /\ FechasParseables(salida.registros)) =>
        LET R == salida.registros.v
            df == salida.df
        IN /\ salida.exc = ""
           /\ Len(df.index) = Len(R)
           /\ Len(df.rows) = Len(R)
           /\ {df.index[i] : i \in 1..Len(R)} = 0..(Len(R) - 1)
           /\ \A i \in 1..Len(R) : df.rows[i] = FilaDe(R[df.index[i] + 1], df.columns)

C10_Witness ==
    /\ Hecho
    /\ FechasParseables(salida.registros)
    /\ Len(salida.df.rows) = 3
    /\ \A i \in 1..3 : salida.df.rows[i].fecha = Date(1)
    /\ \E i, j \in 1..3 : salida.df.rows[i].valor # salida.df.rows[j].valor

-----------------------------------------------------------------------------
(* Properties of get_multiple_variables, checked under Spec *)

Pedidos == {ids_variables[j] : j \in 1..Len(ids_variables)}

\* The last position at which id is requested.
UltimaPos(id) ==
    CHOOSE j \in 1..Len(ids_variables) :
        ids_variables[j] = id /\ \A i \in (j + 1)..Len(ids_variables) : ids_variables[i] # id

\* The fetch that returned r fails: transport, normalization or parse.
Falla(r) == \A o \in DatosDe(r) : o.exc # ""

\* The entry a fetch that returned r must leave: empty if it fails, else the
\* series built from it.
EntradaDe(x, r) ==
    IF Falla(r) THEN x = DFVacio
    ELSE \E o \in DatosDe(r) : o.exc = "" /\ x = o.df

\* C1 (as claimed): for every list of N identifiers and every combination of
\* outcomes the call returns, without raising, a map with exactly N entries,
\* one per requested identifier, empty for a failing one and the built series
\* otherwise.
C1_NEntradas ==
    /\ pc # "excepcion"
    /\ pc = "fin" =>
          /\ Cardinality(DOMAIN resultados) = Len(ids_variables)
          /\ DOMAIN resultados = Pedidos
          /\ \A j \in 1..Len(ids_variables) :
                EntradaDe(resultados[ids_variables[j]], respuestas[j])

\* C1 (amended): the call returns, without raising, a map with exactly one
\* entry per distinct requested identifier (N entries when the N identifiers
\* are pairwise distinct), empty if the identifier's last fetch failed and
\* the series built from that fetch otherwise.
C1_UnaEntradaPorId ==
    /\ pc # "excepcion"
    /\ pc = "fin" =>
          /\ DOMAIN resultados = Pedidos
          /\ Cardinality(DOMAIN resultados) = Cardinality(Pedidos)
          /\ (Cardinality(Pedidos) = Len(ids_variables)
                => Cardinality(DOMAIN resultados) = Len(ids_variables))
          /\ \A id \in Pedidos :
                EntradaDe(resultados[id], respuestas[UltimaPos(id)])

C1_Witness ==
    /\ pc = "fin"
    /\ ids_variables = <<1, 4>>
    /\ respuestas[1] = ErrorHTTP
    /\ resultados[1] = DFVacio
    /\ ~empty(resultados[4])

\* C8 (as claimed): one request per list position, the k-th to the
\* per-variable path Monetarias/{id_k} with the shared window, none repeated,
\* and none sent before the previous position has its entry.
C8_TrazaDePeticiones ==
    /\ Len(llamadas) <= Len(ids_variables)
    /\ pc = "fin" => Len(llamadas) = Len(ids_variables)
    /\ Len(llamadas) = IF pc = "registrar" THEN k ELSE k - 1
    /\ pc = "registrar" => Cardinality(DOMAIN resultados)
                             = Cardinality({ids_variables[j] : j \in 1..(k - 1)})
    /\ \A j \in 1..Len(llamadas) :
          /\ llamadas[j].url = <<"Monetarias", ids_variables[j]>>
          /\ llamadas[j].params = llamadas[1].params

\* What does hold of the trace: one request per position, in list order, a
\* position's request sent only once the previous position has its entry,
\* and the per-variable URL for every identifier other than 0.
TrazaEnOrden ==
    /\ Len(llamadas) = IF pc = "registrar" THEN k ELSE k - 1
    /\ pc = "fin" => Len(llamadas) = Len(ids_variables)
    /\ pc = "registrar" => DOMAIN resultados = {ids_variables[j] : j \in 1..(k - 1)}
    /\ \A j \in 1..Len(llamadas) :
          /\ ids_variables[j] # 0 => llamadas[j].url = <<"Monetarias", ids_variables[j]>>
          /\ llamadas[j].params.desde <= llamadas[j].params.hasta - DiasAtrasDefecto + 1
          /\ llamadas[j].params.desde >= llamadas[j].params.hasta - DiasAtrasDefecto

\* The response holds a record list in which some record's fecha cannot be parsed.
TieneFechaInvalida(r) ==
    /\ r.exc = ""
    /\ LET n == Normalizar(r.data) IN
          /\ n.exc = ""
          /\ n.arg.t = "list"
          /\ \A i \in 1..Len(n.arg.v) : n.arg.v[i].t = "dict"
          /\ \E i \in 1..Len(n.arg.v) :
                /\ "fecha" \in DOMAIN n.arg.v[i].v
                /\ n.arg.v[i].v.fecha = Str(FechaInvalida)

\* C9: when one record of a variable has an unparsable fecha, the step that
\* processes that variable records an empty series for it (no partial series
\* of the good records) and leaves the entry of every other identifier as it is.
C9_TodoONada ==
    [][(pc = "registrar" /\ modo = "lote" /\ TieneFechaInvalida(respuestas[k])) =>
          /\ pc' = "llamar"
          /\ DOMAIN resultados' = DOMAIN resultados \cup {ids_variables[k]}
          /\ resultados'[ids_variables[k]] = DFVacio
          /\ \A id \in DOMAIN resultados \ {ids_variables[k]} :
                resultados'[id] = resultados[id]]_vars

\* Under SpecDF, over every envelope: a resolved record list with an
\* unparsable fecha makes get_datos_variable raise, whatever else it holds.
FechaInvalidaLevanta ==
    (Hecho /\ TieneFechaInvalida(Cuerpo(data))) =>
        (salida.exc = "ValueError" /\ salida.df = DFVacio)

C9_Witness ==
    /\ pc = "fin"
    /\ ids_variables = <<4, 1>>
    /\ ~empty(resultados[4])
    /\ TieneFechaInvalida(respuestas[2])
    /\ \E i \in 1..Len(respuestas[2].data.results.v) :
          respuestas[2].data.results.v[i].v.fecha.v \in FechasValidas
    /\ resultados[1] = DFVacio

-----------------------------------------------------------------------------
(* Properties of fetch_datos, checked under SpecDashboard *)

PosDashboard(id) == CHOOSE j \in 1..Len(IdsDashboard) : IdsDashboard[j] = id

\* x is the valor of a record of R whose date no other record's exceeds.
EsValorMasReciente(x, R) ==
    \E i \in 1..Len(R) :
        /\ R[i].v.valor = x
        /\ \A j \in 1..Len(R) : DiaDe(R[j].v.fecha.v) <= DiaDe(R[i].v.fecha.v)

====
